---- MODULE Spec2Model ----
(***************************************************************************)
(* The activity synchronisation core of strava-api-app: the paginated      *)
(* fetch from the remote provider, the MongoDB activity cache and the      *)
(* request handlers that tie them together.  The repository holds several  *)
(* divergent versions of the same server; the variable `version` selects   *)
(* the one a behaviour runs:                                               *)
(*   "index1"  server/index.ts lines 1-456                                 *)
(*   "index2"  server/index.ts lines 457-843 with the Activity model of    *)
(*             unnamed/part_004                                            *)
(*   "part003" unnamed/part_003                                            *)
(*   "routes"  routes/strava.js                                            *)
(***************************************************************************)
EXTENDS Integers, Sequences, FiniteSets, TLC

(***************************************************************************)
(* Bounds of the model.                                                    *)
(***************************************************************************)
\* the wall clock runs from 1 to MaxClock
MaxClock == 2
\* bulk upsert calls in one behaviour of the cache
MaxCalls == 2
\* activities the remote provider holds for one athlete
MaxFeed == 5
\* page size of the listing endpoint (100 or 200 in the source, scaled down)
PER_PAGE == 2
\* 429 answers and other error answers the provider gives during one fetch
Max429 == 1
MaxErrors == 5
\* clock ticks in one behaviour of the request handlers
SyncTicks == 3
\* the 15 minute sync interval of needsRefresh, in clock ticks
SYNC_INTERVAL == 2
\* the 5 minutes before expiry in which a token counts as expiring, in ticks
SKEW == 1
\* the lifetime of an access token the provider issues, in clock ticks
TokenLife == 3

(***************************************************************************)
(* Program constants.                                                      *)
(***************************************************************************)
MAX_RETRIES == 3
RATE_LIMIT_DELAY == 500

Users == {1, 2}
StravaIds == {1, 2}
Dates == {1, 2}
\* an activity list is long enough to hold every id, or to repeat one
MaxLen == Cardinality(StravaIds)

\* a "no value" marker for optional fields and arguments
None == 0

VARIABLES
    version,     \* the implementation this behaviour runs
    clock,       \* Date.now()
    cache,       \* the activities collection, documents in insertion order
    lastArgs,    \* arguments of the latest bulk upsert call, <<>> before the first
    repeat,      \* the latest call repeated the arguments of the one before
    bulkResult,  \* what the latest bulk upsert call returned or threw
    calls,       \* bulk upsert calls made so far
    feed,        \* the activities the remote provider holds, in listing order
    fs,          \* fetchStravaActivities: its local variables and outcome
    log,         \* the page requests issued so far and how each was answered
    req,         \* the HTTP requests the server is handling, by slot
    tok,         \* the Strava credential and the sync cycle that uses it
    tm,          \* trainingMetrics: the activity list and what was computed from it
    px,          \* server.js: activitiesCache, the users' lastSync and the requests
    cl           \* the browser: localStorage and the fetchActivities calls of the page

cacheV == <<cache, lastArgs, repeat, bulkResult, calls>>
fetchV == <<fs, log>>
vars == <<version, clock, cacheV, feed, fetchV, req, tok, tm, px, cl>>

(***************************************************************************)
(* Remote activities as the provider delivers them: an id and a start      *)
(* date (the start date stands for every field the provider may change).   *)
(***************************************************************************)
RawActivity == [id : StravaIds, start_date : Dates]

RECURSIVE SeqsUpTo(_, _)
SeqsUpTo(S, n) ==
    IF n = 0 THEN {<<>>}
    ELSE LET shorter == SeqsUpTo(S, n - 1)
         IN  shorter \cup {Append(s, x) : s \in {t \in shorter : Len(t) = n - 1}, x \in S}

ActivityLists == SeqsUpTo(RawActivity, MaxLen)

(***************************************************************************)
(* The activities collection.  The Mongoose schema declares stravaId       *)
(* unique (across all users); the raw db.collection('activities') of       *)
(* index1 and part003 carries no such index.                               *)
(***************************************************************************)
HasUniqueStravaId(v) == v \in {"index2", "routes"}

\* A filter that never matches, as when the stored key and the filter value
\* differ in type (a string against a number).
MatchingNever(coll, stravaId, userId) ==
    {i \in 1..Len(coll) : FALSE}

\* The documents the filter {stravaId, userId} selects.
Matching(coll, stravaId, userId) ==
    {i \in 1..Len(coll) : coll[i].stravaId = stravaId /\ coll[i].userId = userId}

Min(S) == CHOOSE x \in S : \A y \in S : x <= y
Max(S) == CHOOSE x \in S : \A y \in S : x >= y

\* One updateOne operation with upsert: true, as bulkWrite applies it.
\* op = [stravaId, userId, start_date, lastUpdated, lastStravaSync,
\*       insertUpdated, insertSync]: the $set document, where None leaves a
\* field alone on update, and the schema defaults applied on insert.
UpdateOneUpsert(coll, op, unique) ==
    LET hit == Matching(coll, op.stravaId, op.userId)
    IN  IF hit # {}
        THEN LET i   == Min(hit)
                 old == coll[i]
                 new == [old EXCEPT
                            !.start_date = op.start_date,
                            !.lastUpdated = IF op.lastUpdated = None THEN @ ELSE op.lastUpdated,
                            !.lastStravaSync = IF op.lastStravaSync = None THEN @ ELSE op.lastStravaSync]
             IN  [coll |-> [coll EXCEPT ![i] = new], ok |-> TRUE,
                  modified |-> IF new = old THEN 0 ELSE 1, upserted |-> 0]
        ELSE IF unique /\ \E i \in 1..Len(coll) : coll[i].stravaId = op.stravaId
        THEN \* E11000 duplicate key on the stravaId index
             [coll |-> coll, ok |-> FALSE, modified |-> 0, upserted |-> 0]
        ELSE [coll |-> Append(coll, [stravaId |-> op.stravaId, userId |-> op.userId,
                                     start_date |-> op.start_date,
                                     lastUpdated |-> op.insertUpdated,
                                     lastStravaSync |-> op.insertSync]),
              ok |-> TRUE, modified |-> 0, upserted |-> 1]

\* A write that replaces the collection by the documents of the batch.
ReplaceAll(coll, ops, unique) ==
    [coll |-> [i \in 1..Len(ops) |->
                 [stravaId |-> ops[i].stravaId, userId |-> ops[i].userId,
                  start_date |-> ops[i].start_date,
                  lastUpdated |-> ops[i].insertUpdated,
                  lastStravaSync |-> ops[i].insertSync]],
     ok |-> TRUE, modified |-> 0, upserted |-> Len(ops)]

\* bulkWrite(operations), ordered: the operations run in order and the first
\* failing one ends the batch; the ones before it stay applied.
RECURSIVE BulkWrite(_, _, _)
BulkWrite(coll, ops, unique) ==
    IF ops = <<>> THEN [coll |-> coll, ok |-> TRUE, modified |-> 0, upserted |-> 0]
    ELSE LET one == UpdateOneUpsert(coll, Head(ops), unique)
         IN  IF ~one.ok THEN one
             ELSE LET rest == BulkWrite(one.coll, Tail(ops), unique)
                  IN  [coll |-> rest.coll, ok |-> rest.ok,
                       modified |-> one.modified + rest.modified,
                       upserted |-> one.upserted + rest.upserted]

\* The operations each version builds from the fetched activities.
UpsertOp(v, userId, activity, now) ==
    [stravaId |-> activity.id, userId |-> userId, start_date |-> activity.start_date,
     lastUpdated    |-> IF v = "routes" THEN None ELSE now,
     lastStravaSync |-> IF v = "part003" THEN None ELSE now,
     insertUpdated  |-> now,
     insertSync     |-> IF v = "part003" THEN None ELSE now]

Operations(v, userId, activities, now) ==
    [i \in 1..Len(activities) |-> UpsertOp(v, userId, activities[i], now)]

\* Activity.bulkUpsertActivities / updateMongoCache: an empty list writes nothing.
BulkUpsertActivities(v, coll, activities, userId, now) ==
    IF activities = <<>>
    THEN [coll |-> coll, ok |-> TRUE, modified |-> 0, upserted |-> 0]
    ELSE BulkWrite(coll, Operations(v, userId, activities, now), HasUniqueStravaId(v))

\* Activity.find({userId, start_date: {$gte: after, $lte: before}})
\*         .sort({start_date: -1}); equal start dates keep insertion order.
\* the documents as the collection stores them
InsertionOrder(docs) == docs

RECURSIVE SortDesc(_)
SortDesc(docs) ==
    IF docs = <<>> THEN <<>>
    ELSE LET top == Max({docs[i].start_date : i \in 1..Len(docs)})
             i   == Min({k \in 1..Len(docs) : docs[k].start_date = top})
         IN  <<docs[i]>> \o SortDesc(SubSeq(docs, 1, i - 1) \o SubSeq(docs, i + 1, Len(docs)))

Find(coll, userId, after, before) ==
    SortDesc(SelectSeq(coll, LAMBDA d : /\ d.userId = userId
                                        /\ d.start_date >= after
                                        /\ (before = None \/ d.start_date <= before)))

NeedsRefreshAlways(coll, userId, now) == TRUE

\* Activity.needsRefresh: no document of the user, or the newest
\* lastStravaSync is more than SYNC_INTERVAL ago.
NeedsRefresh(coll, userId, now) ==
    LET mine == {i \in 1..Len(coll) : coll[i].userId = userId}
    IN  IF mine = {} THEN TRUE
        ELSE now - Max({coll[i].lastStravaSync : i \in mine}) > SYNC_INTERVAL

\* Activity.getEarliestActivityDate / getLatestActivityDate
EarliestActivityDate(coll, userId) ==
    LET mine == {i \in 1..Len(coll) : coll[i].userId = userId}
    IN  IF mine = {} THEN None ELSE Min({coll[i].start_date : i \in mine})

LatestActivityDate(coll, userId) ==
    LET mine == {i \in 1..Len(coll) : coll[i].userId = userId}
    IN  IF mine = {} THEN None ELSE Max({coll[i].start_date : i \in mine})

(***************************************************************************)
(* The remote provider: GET /athlete/activities?page=p&per_page=PER_PAGE   *)
(* &after=t lists the athlete's activities started after t, a page at a    *)
(* time.  The listing comes oldest first or newest first.                  *)
(***************************************************************************)
Feed(n, oldestFirst) ==
    [i \in 1..n |-> [id |-> i, start_date |-> IF oldestFirst THEN i ELSE n + 1 - i]]

Feeds == {Feed(n, o) : n \in 0..MaxFeed, o \in BOOLEAN}

RemotePage(f, after, p) ==
    LET listed == SelectSeq(f, LAMBDA a : a.start_date > after)
        last   == IF p * PER_PAGE < Len(listed) THEN p * PER_PAGE ELSE Len(listed)
    IN  SubSeq(listed, (p - 1) * PER_PAGE + 1, last)

(***************************************************************************)
(* fetchStravaActivities, one loop iteration per answer of the provider.   *)
(* code is the HTTP status of the answer and data the page it carries      *)
(* when the status is 200.                                                 *)
(***************************************************************************)
NewFetch ==
    [page |-> 1, allActivities |-> <<>>, retryCount |-> 0,
     state |-> "running", result |-> <<>>, backoff |-> 0]

\* `continue` in the 429 branch: the loop variable page is left as it is.
SkipPage(page) == page + 1
\* a loop that starts over at the first page and keeps what it has collected
RestartPage(page) == 1
RetryPage(page) == page

\* the retry budget of part_003
RetriesNeverExhausted(retryCount) == FALSE
RetriesExhausted(retryCount) == retryCount > MAX_RETRIES

\* server/index.ts, first version: the while (hasMore) loop.
FetchIndex1(f, code, data) ==
    IF code = 200
    THEN IF data = <<>>
         THEN [f EXCEPT !.state = "returned", !.result = SortDesc(f.allActivities)]
         ELSE LET all == f.allActivities \o data
              IN  IF Len(data) < PER_PAGE
                  THEN [f EXCEPT !.allActivities = all, !.state = "returned",
                                 !.result = SortDesc(all)]
                  ELSE [f EXCEPT !.allActivities = all, !.page = @ + 1]
    ELSE IF code = 429
    THEN [f EXCEPT !.page = RetryPage(@)]
    ELSE IF f.allActivities # <<>>
    THEN [f EXCEPT !.state = "returned", !.result = SortDesc(f.allActivities)]
    ELSE [f EXCEPT !.state = "threw"]

\* unnamed/part_003: the while (true) loop with retryCount.
FetchPart003(f, code, data) ==
    IF code = 200
    THEN IF data = <<>>
         THEN [f EXCEPT !.state = "returned", !.result = f.allActivities]
         ELSE LET all == f.allActivities \o data
              IN  IF Len(data) < PER_PAGE
                  THEN [f EXCEPT !.allActivities = all, !.state = "returned", !.result = all]
                  ELSE [f EXCEPT !.allActivities = all, !.page = @ + 1,
                                 !.retryCount = 0, !.backoff = 0]
    ELSE IF code = 429
    THEN [f EXCEPT !.page = RetryPage(@)]
    ELSE LET n == f.retryCount + 1
         IN  IF RetriesExhausted(n)
             THEN [f EXCEPT !.retryCount = n, !.state = "returned",
                            !.result = f.allActivities]
             ELSE [f EXCEPT !.retryCount = n, !.backoff = RATE_LIMIT_DELAY * n]

\* routes/strava.js: the while (hasMore) loop, no try/catch.
FetchRoutes(f, code, data) ==
    IF code = 200
    THEN IF Len(data) = 0
         THEN [f EXCEPT !.state = "returned", !.result = f.allActivities]
         ELSE [f EXCEPT !.allActivities = @ \o data, !.page = @ + 1]
    ELSE [f EXCEPT !.state = "threw"]

\* server/index.ts, second version: one page per call, called with page = 1.
FetchIndex2(f, code, data) ==
    IF code = 200
    THEN [f EXCEPT !.allActivities = data, !.state = "returned", !.result = data]
    ELSE IF code = 429
    THEN [f EXCEPT !.page = RetryPage(@)]
    ELSE [f EXCEPT !.state = "threw"]

FetchStep(v, f, code, data) ==
    CASE v = "index1"  -> FetchIndex1(f, code, data)
      [] v = "part003" -> FetchPart003(f, code, data)
      [] v = "routes"  -> FetchRoutes(f, code, data)
      [] v = "index2"  -> FetchIndex2(f, code, data)

(***************************************************************************)
(* The cache under any sequence of bulk upserts.                           *)
(***************************************************************************)
Versions == {"index1", "index2", "part003", "routes"}

CacheEmpty ==
    /\ cache = <<>>
    /\ lastArgs = <<>>
    /\ repeat = FALSE
    /\ bulkResult = [ok |-> TRUE, modifiedCount |-> 0, upsertedCount |-> 0]
    /\ calls = 0

FetchIdle ==
    /\ fs = [NewFetch EXCEPT !.state = "idle"]
    /\ log = <<>>

Reqs == {1, 2}

IdleReq ==
    [pc |-> "idle", userId |-> None, force |-> FALSE, after |-> None, before |-> None,
     since |-> None, incremental |-> FALSE, snapshot |-> <<>>,
     fs |-> [NewFetch EXCEPT !.state = "idle"], failure |-> "none",
     freshAtCall |-> FALSE, writeFailed |-> FALSE,
     resp |-> [status |-> None, activities |-> <<>>, metadata |-> <<>>]]

NoRequests == req = [r \in Reqs |-> IdleReq]

\* server.js: activitiesCache (677-682) holds nothing, no user has synced,
\* no request is being handled.  remote[u] lists the ids Strava holds for
\* user u, and owner in a response item names the user whose sync built it.
IdleProxyRequest == [pc |-> "idle", status |-> 0, activities |-> <<>>]
NoProxy ==
    [activitiesCache |-> [data |-> <<>>, set |-> FALSE],
     lastSync |-> [u \in Users |-> None],
     remote |-> [u \in Users |-> <<>>],
     rq |-> [u \in Users |-> IdleProxyRequest]]

\* unnamed/part_005: localStorage holds neither the activities nor their
\* metadata, and no fetchActivities call of the page has started.
Calls == {1, 2}
IdleCall ==
    [pc |-> "idle", force |-> FALSE, needsFullRefresh |-> FALSE, now |-> 0,
     lastFullSync |-> 0, result |-> "none"]
NoClient ==
    [accessToken |-> FALSE, metadata |-> <<>>, cachedData |-> <<>>,
     activities |-> <<>>, isLoading |-> TRUE, error |-> "",
     mounted |-> FALSE, call |-> [c \in Calls |-> IdleCall], reloads |-> 0]

\* trainingMetrics.ts: nothing was computed.  Loads and percentages are kept
\* in thousandths.
\* acute, chronic and ratio are what the call returns; acuteLoad and
\* chronicLoad are the loads before any rounding, and now is the date the
\* call read.
NoLoad ==
    [called |-> FALSE, acute |-> 0, chronic |-> 0, ratio |-> 0,
     acuteLoad |-> 0, chronicLoad |-> 0, now |-> 0]
NoZones == [called |-> FALSE, zone1 |-> 0, zone2 |-> 0, zone3 |-> 0, zone4 |-> 0, zone5 |-> 0]
NoMetrics == [variant |-> "none", activities |-> <<>>, load |-> NoLoad, zones |-> NoZones]

\* The credential: gen numbers the access tokens the provider has issued and
\* expiresAt is the expiry of the newest; access is the token the running
\* code holds and used the one the page request carried.  soon, genAtStart,
\* decided, soonAtDecision and refreshChosen record what held when a cycle
\* started and when the code decided whether to refresh.  stored says that
\* the token pair is kept (the user row, or localStorage stravaTokens),
\* authenticated that the session counts as logged in, and invalid records
\* that a refresh failed or the user logged out.  rival is a second request
\* of the same session that runs while the first is in flight, and rtoken
\* the refresh token it read.
NoCredential ==
    [place |-> "none", pc |-> "idle", mounted |-> FALSE, expiresAt |-> None, gen |-> 1,
     access |-> None, used |-> None, soon |-> FALSE, genAtStart |-> None,
     decided |-> FALSE, soonAtDecision |-> FALSE, refreshChosen |-> FALSE,
     stored |-> FALSE, authenticated |-> FALSE, invalid |-> FALSE,
     rival |-> [pc |-> "idle", rtoken |-> None]]

InitCache ==
    /\ version \in Versions
    /\ clock = 1
    /\ CacheEmpty
    /\ feed = <<>>
    /\ FetchIdle
    /\ NoRequests
    /\ tok = NoCredential
    /\ tm = NoMetrics
    /\ px = NoProxy
    /\ cl = NoClient

CallBulkUpsert ==
    /\ calls < MaxCalls
    /\ calls' = calls + 1
    /\ \E userId \in Users, activities \in ActivityLists :
         LET r == BulkUpsertActivities(version, cache, activities, userId, clock)
         IN  /\ cache' = r.coll
             /\ bulkResult' = [ok |-> r.ok, modifiedCount |-> r.modified,
                               upsertedCount |-> r.upserted]
             /\ repeat' = (lastArgs = <<userId, activities>>)
             /\ lastArgs' = <<userId, activities>>
             /\ UNCHANGED <<cl, px, tm, tok, version, clock, feed, fetchV, req>>

Tick ==
    /\ clock < MaxClock
    /\ clock' = clock + 1
    /\ UNCHANGED <<cl, px, tm, tok, version, cacheV, feed, fetchV, req>>

NextCache == CallBulkUpsert \/ Tick

SpecCache == InitCache /\ [][NextCache]_vars

(***************************************************************************)
(* One call of fetchStravaActivities against a provider that answers each  *)
(* page request with the page, a 429, a 401 or a 5xx.                      *)
(***************************************************************************)
Count(codes) == Cardinality({i \in 1..Len(log) : log[i].code \in codes})

InitFetch ==
    /\ version \in Versions
    /\ clock = 1
    /\ CacheEmpty
    /\ feed \in Feeds
    /\ fs = NewFetch
    /\ log = <<>>
    /\ NoRequests
    /\ tok = NoCredential
    /\ tm = NoMetrics
    /\ px = NoProxy
    /\ cl = NoClient

Answer(code) ==
    /\ fs.state = "running"
    /\ LET next == FetchStep(version, fs, code, RemotePage(feed, None, fs.page))
       IN  /\ fs' = next
           /\ log' = Append(log, [page |-> fs.page, code |-> code, backoff |-> next.backoff])
    /\ UNCHANGED <<cl, px, tm, tok, version, clock, cacheV, feed, req>>

Answer200 == Answer(200)

Answer429 ==
    /\ Count({429}) < Max429
    /\ Answer(429)

Answer401 ==
    /\ Count({401, 500}) < MaxErrors
    /\ Answer(401)

Answer500 ==
    /\ Count({401, 500}) < MaxErrors
    /\ Answer(500)

NextFetch == Answer200 \/ Answer429 \/ Answer401 \/ Answer500

SpecFetch == InitFetch /\ [][NextFetch]_vars

(***************************************************************************)
(* The GET /api/strava/activities handlers.  A handler runs from one await *)
(* to the next in one step; requests interleave at the awaits.  All        *)
(* requests come from the athlete whose activities `feed` lists; a request  *)
(* takes the lowest free slot, and `calls` counts the requests received.   *)
(***************************************************************************)
Athlete == Min(Users)
\* the athlete has no activity, one, or one per remote id
SyncFeed == Cardinality(StravaIds)
SyncFeeds == {Feed(n, TRUE) : n \in 0..SyncFeed}
\* the ?after= values a client sends: none (EPOCH_START) or a start date
AfterChoices == {None, 1}

ErrorResponse(status) == [status |-> status, activities |-> <<>>, metadata |-> <<>>]

\* the spec's Fresh state: the cache holds documents of the user and the
\* newest sync is less than the staleness window ago
Fresh(coll, userId, now) ==
    LET stamps == {coll[i].lastStravaSync : i \in {k \in 1..Len(coll) : coll[k].userId = userId}}
    IN  \E t \in stamps : (\A u \in stamps : u <= t) /\ now - t < SYNC_INTERVAL

InitSync ==
    /\ version \in Versions
    /\ clock = SyncFeed + 1
    /\ CacheEmpty
    /\ feed \in SyncFeeds
    /\ FetchIdle
    /\ NoRequests
    /\ tok = NoCredential
    /\ tm = NoMetrics
    /\ px = NoProxy
    /\ cl = NoClient

\* a request that starts its remote fetch
Fetching(q, since, incremental, snapshot) ==
    [q EXCEPT !.pc = "fetching", !.fs = NewFetch, !.since = since,
              !.incremental = incremental, !.snapshot = snapshot]

Arrived(userId, force, after, before) ==
    [IdleReq EXCEPT !.userId = userId, !.force = force, !.after = after, !.before = before,
                    !.freshAtCall = Fresh(cache, userId, clock)]

Rejected(status) == [IdleReq EXCEPT !.pc = "done", !.resp = ErrorResponse(status)]

\* the slot a new request takes
FreeSlot(r) == \A o \in Reqs : o < r => req[o].pc # "idle"

\* server/index.ts 432-445: fetch everything and answer with it.
ReceiveIndex1(r) ==
    /\ version = "index1"
    /\ req[r].pc = "idle"
    /\ FreeSlot(r)
    /\ calls < MaxCalls
    /\ calls' = calls + 1
    /\ \E tokenOk \in BOOLEAN :
          req' = [req EXCEPT ![r] =
                    IF ~tokenOk THEN Rejected(401)
                    ELSE Fetching(Arrived(Athlete, TRUE, None, None), None, FALSE, <<>>)]
    /\ UNCHANGED <<cl, px, tm, tok, version, clock, cache, lastArgs, repeat, bulkResult, feed, fetchV>>

\* server/index.ts 778-800: getActivitiesHandler up to the fetch.
ReceiveIndex2(r) ==
    /\ version = "index2"
    /\ req[r].pc = "idle"
    /\ FreeSlot(r)
    /\ calls < MaxCalls
    /\ calls' = calls + 1
    /\ \E tokenOk \in BOOLEAN, forceRefresh \in BOOLEAN, after \in AfterChoices :
          LET q == Arrived(Athlete, forceRefresh, after, clock)
              needsRefresh == forceRefresh \/ NeedsRefresh(cache, Athlete, clock)
          IN  req' = [req EXCEPT ![r] =
                        IF ~tokenOk THEN Rejected(401)
                        ELSE IF needsRefresh THEN Fetching(q, after, FALSE, <<>>)
                        ELSE [q EXCEPT !.pc = "finding"]]
    /\ UNCHANGED <<cl, px, tm, tok, version, clock, cache, lastArgs, repeat, bulkResult, feed, fetchV>>

\* unnamed/part_003 354-382: after = start_date of the newest cached activity
\* unless a full sync is asked for.
ReceivePart003(r) ==
    /\ version = "part003"
    /\ req[r].pc = "idle"
    /\ FreeSlot(r)
    /\ calls < MaxCalls
    /\ calls' = calls + 1
    /\ \E tokenOk \in BOOLEAN, fullSync \in BOOLEAN :
          LET q == Arrived(Athlete, fullSync, None, None)
              lastActivity == Find(cache, Athlete, None, None)
              after == IF ~fullSync /\ lastActivity # <<>>
                       THEN lastActivity[1].start_date ELSE None
          IN  req' = [req EXCEPT ![r] =
                        IF ~tokenOk THEN Rejected(401)
                        ELSE Fetching(q, after, after # None, <<>>)]
    /\ UNCHANGED <<cl, px, tm, tok, version, clock, cache, lastArgs, repeat, bulkResult, feed, fetchV>>

\* routes/strava.js 1-47: since = newest lastStravaSync of the cached
\* activities unless the cache is empty or a full sync is asked for; the
\* request for the athlete's id may fail.
ReceiveRoutes(r) ==
    /\ version = "routes"
    /\ req[r].pc = "idle"
    /\ FreeSlot(r)
    /\ calls < MaxCalls
    /\ calls' = calls + 1
    /\ \E athleteOk \in BOOLEAN, fullSync \in BOOLEAN :
          LET q == Arrived(Athlete, fullSync, None, None)
              cachedActivities == Find(cache, Athlete, None, None)
              incremental == cachedActivities # <<>> /\ ~fullSync
              lastSync == IF incremental
                          THEN Max({cachedActivities[i].lastStravaSync :
                                        i \in 1..Len(cachedActivities)})
                          ELSE None
          IN  req' = [req EXCEPT ![r] =
                        IF ~athleteOk THEN Rejected(500)
                        ELSE Fetching(q, lastSync, incremental, cachedActivities)]
    /\ UNCHANGED <<cl, px, tm, tok, version, clock, cache, lastArgs, repeat, bulkResult, feed, fetchV>>

\* What each handler does when fetchStravaActivities returns or throws.
AfterFetch(v, q) ==
    IF q.fs.state = "threw"
    THEN [q EXCEPT !.pc = "done", !.resp = ErrorResponse(500)]
    ELSE IF v = "index1"
    THEN [q EXCEPT !.pc = "done",
                   !.resp = [status |-> 200, activities |-> q.fs.result, metadata |-> <<>>]]
    ELSE IF v = "routes" /\ q.incremental /\ Len(q.fs.result) = 0
    THEN [q EXCEPT !.pc = "done",
                   !.resp = [status |-> 200, activities |-> q.snapshot, metadata |-> <<>>]]
    ELSE [q EXCEPT !.pc = "upserting"]

\* The provider answers the page request a fetching handler has in flight.
ProviderAnswers(r, code) ==
    /\ req[r].pc = "fetching"
    /\ LET q    == req[r]
           next == FetchStep(version, q.fs, code, RemotePage(feed, q.since, q.fs.page))
           q1   == [q EXCEPT !.fs = next,
                             !.failure = IF next.state = "running" \/ code = 200 THEN @
                                         ELSE IF Find(cache, q.userId, None, None) = <<>>
                                         THEN "cacheEmpty" ELSE "cacheHeld"]
       IN  req' = [req EXCEPT ![r] = IF next.state = "running" THEN q1
                                     ELSE AfterFetch(version, q1)]
    /\ UNCHANGED <<cl, px, tm, tok, version, clock, cacheV, feed, fetchV>>

Provider200 == \E r \in Reqs : ProviderAnswers(r, 200)
Provider429 == \E r \in Reqs : ProviderAnswers(r, 429)
Provider401 == \E r \in Reqs : ProviderAnswers(r, 401)
Provider500 == \E r \in Reqs : ProviderAnswers(r, 500)

\* What each handler does when the cache write returns or throws.
AfterUpsertSwallowed(q, ok) == [q EXCEPT !.pc = "finding", !.writeFailed = ~ok]
AfterUpsert(q, ok) ==
    IF ok THEN [q EXCEPT !.pc = "finding"]
    ELSE [q EXCEPT !.pc = "done", !.writeFailed = TRUE, !.resp = ErrorResponse(500)]

\* the handler goes on to the query without the write
UpsertNotAwaited(r) ==
    /\ req[r].pc = "upserting"
    /\ req' = [req EXCEPT ![r] = [req[r] EXCEPT !.pc = "finding"]]
    /\ UNCHANGED <<cl, px, tm, tok, version, clock, cacheV, feed, fetchV>>

\* Activity.bulkUpsertActivities / updateMongoCache with what was fetched.
\* The database may fail the ordered batch at any operation: the first n
\* operations are applied and the bulkWrite throws.
Upsert(r) ==
    /\ req[r].pc = "upserting"
    /\ \E n \in 0..Len(req[r].fs.result) :
          LET q   == req[r]
              res == BulkUpsertActivities(version, cache, SubSeq(q.fs.result, 1, n),
                                          q.userId, clock)
          IN  /\ cache' = res.coll
              /\ req' = [req EXCEPT ![r] = AfterUpsert(q, res.ok /\ n = Len(q.fs.result))]
    /\ UNCHANGED <<cl, px, tm, tok, version, clock, lastArgs, repeat, bulkResult, calls, feed, fetchV>>

\* The final query and the response.
Respond(r) ==
    /\ req[r].pc = "finding"
    /\ LET q == req[r]
           activities == IF version = "index2"
                         THEN Find(cache, q.userId, q.after, q.before)
                         ELSE Find(cache, q.userId, None, None)
           metadata == IF version = "index2"
                       THEN [count |-> Len(activities),
                             earliest |-> EarliestActivityDate(cache, q.userId),
                             latest |-> LatestActivityDate(cache, q.userId),
                             lastSync |-> clock]
                       ELSE <<>>
       IN  req' = [req EXCEPT ![r] =
                     [q EXCEPT !.pc = "done",
                               !.resp = [status |-> 200, activities |-> activities,
                                         metadata |-> metadata]]]
    /\ UNCHANGED <<cl, px, tm, tok, version, clock, cacheV, feed, fetchV>>

\* The response is sent; the slot takes the next request.
Close(r) ==
    /\ req[r].pc = "done"
    /\ req' = [req EXCEPT ![r] = IdleReq]
    /\ UNCHANGED <<cl, px, tm, tok, version, clock, cacheV, feed, fetchV>>

TickSync ==
    /\ clock < SyncFeed + 1 + SyncTicks
    /\ clock' = clock + 1
    /\ UNCHANGED <<cl, px, tm, tok, version, cacheV, feed, fetchV, req>>

NextSync ==
    \/ \E r \in Reqs : ReceiveIndex1(r)
    \/ \E r \in Reqs : ReceiveIndex2(r)
    \/ \E r \in Reqs : ReceivePart003(r)
    \/ \E r \in Reqs : ReceiveRoutes(r)
    \/ Provider200
    \/ Provider429
    \/ Provider401
    \/ Provider500
    \/ \E r \in Reqs : Upsert(r)
    \/ \E r \in Reqs : Respond(r)
    \/ \E r \in Reqs : Close(r)
    \/ TickSync

SpecSync == InitSync /\ [][NextSync]_vars

(***************************************************************************)
(* The access token.  In place "session" the server keeps the credential   *)
(* (GET /api/activities); in place "bearer" the browser keeps it           *)
(* (AuthProvider) and sends it with each request to                        *)
(* GET /api/strava/activities.                                             *)
(***************************************************************************)
\* AuthContext.tsx 57: Date.now() >= expiresAt - 300000
IsExpiringSoon(expiresAt, now, skew) == now >= expiresAt - skew

\* server/index.ts 129: new Date(user.tokenExpires) <= new Date()
Expired(tokenExpires, now) == tokenExpires <= now

InitToken ==
    /\ version \in {"index1", "index2"}
    /\ clock = 1
    /\ CacheEmpty
    /\ feed = <<>>
    /\ FetchIdle
    /\ NoRequests
    /\ \E place \in {"session", "bearer"}, expiresAt \in 1..(TokenLife + 1) :
          tok = [NoCredential EXCEPT !.place = place, !.expiresAt = expiresAt,
                                     !.stored = TRUE,
                                     !.authenticated = (place = "session")]
    /\ tm = NoMetrics
    /\ px = NoProxy
    /\ cl = NoClient

\* a sync cycle starts while holding token `access`
CycleStart(t, access, pc) ==
    [t EXCEPT !.pc = pc, !.access = access, !.used = None, !.genAtStart = access,
              !.soon = IsExpiringSoon(t.expiresAt, clock, SKEW)]

\* the code decides whether to refresh
Decision(t, refresh) ==
    [t EXCEPT !.decided = TRUE, !.refreshChosen = refresh,
              !.soonAtDecision = IsExpiringSoon(t.expiresAt, clock, SKEW)]

\* the provider issues a new access token
Issued(t) ==
    [t EXCEPT !.gen = @ + 1, !.access = t.gen + 1, !.expiresAt = clock + TokenLife,
              !.invalid = FALSE]

\* GET /api/activities, 116-129: read the user, refresh when expired.
StartActivities ==
    /\ tok.place = "session"
    /\ tok.pc = "idle"
    /\ calls < MaxCalls
    /\ calls' = calls + 1
    /\ LET refresh == Expired(tok.expiresAt, clock)
       IN  tok' = Decision(CycleStart(tok, tok.gen, IF refresh THEN "refreshing" ELSE "fetching"),
                           refresh)
    /\ UNCHANGED <<cl, px, tm, version, clock, cache, lastArgs, repeat, bulkResult, feed, fetchV, req>>

\* GET /api/activities, 130-145: the token endpoint answers.
ServerRefresh ==
    /\ tok.place = "session"
    /\ tok.pc = "refreshing"
    /\ \E ok \in BOOLEAN :
          tok' = IF ok THEN [Issued(tok) EXCEPT !.pc = "fetching"]
                 ELSE [tok EXCEPT !.pc = "done", !.invalid = TRUE]
    /\ UNCHANGED <<cl, px, tm, version, clock, cacheV, feed, fetchV, req>>

\* GET /api/activities, 116-129, received while the first request of the
\* session is in flight.
RivalStart ==
    /\ tok.place = "session"
    /\ tok.pc \in {"refreshing", "fetching"}
    /\ tok.rival.pc = "idle"
    /\ calls < MaxCalls
    /\ calls' = calls + 1
    /\ tok' = [tok EXCEPT !.rival = [pc |-> IF Expired(tok.expiresAt, clock)
                                            THEN "refreshing" ELSE "fetching",
                                     rtoken |-> tok.gen]]
    /\ UNCHANGED <<cl, px, tm, version, clock, cache, lastArgs, repeat, bulkResult, feed, fetchV, req>>

\* GET /api/activities, 130-145, for the second request.
RivalRefresh ==
    /\ tok.rival.pc = "refreshing"
    /\ \E ok \in BOOLEAN :
          tok' = IF ok
                 THEN [tok EXCEPT !.gen = @ + 1, !.expiresAt = clock + TokenLife,
                                  !.invalid = FALSE, !.rival.pc = "fetching"]
                 ELSE [tok EXCEPT !.invalid = TRUE, !.rival.pc = "done"]
    /\ UNCHANGED <<cl, px, tm, version, clock, cacheV, feed, fetchV, req>>

\* GET /api/activities, 147-205, for the second request: it fetches, stores
\* and answers.
RivalFinish ==
    /\ tok.rival.pc \in {"fetching", "done"}
    /\ tok' = [tok EXCEPT !.rival = [pc |-> "idle", rtoken |-> None]]
    /\ UNCHANGED <<cl, px, tm, version, clock, cacheV, feed, fetchV, req>>

\* AuthProvider, 26-66: the effect that runs on mount with stored tokens.
Mount ==
    /\ tok.place = "bearer"
    /\ ~tok.mounted
    /\ tok.stored
    /\ tok.pc = "idle"
    /\ LET refresh == IsExpiringSoon(tok.expiresAt, clock, SKEW)
       IN  tok' = IF refresh
                  THEN [Decision(tok, refresh) EXCEPT !.mounted = TRUE, !.pc = "refreshing"]
                  ELSE [Decision(tok, refresh) EXCEPT !.mounted = TRUE, !.access = tok.gen,
                                                      !.authenticated = TRUE]
    /\ UNCHANGED <<cl, px, tm, version, clock, cacheV, feed, fetchV, req>>

\* AuthProvider, 103-112: logout clears the stored tokens and the state.
LoggedOut(t) ==
    [t EXCEPT !.pc = "idle", !.access = None, !.stored = FALSE,
              !.authenticated = FALSE, !.invalid = TRUE]

\* AuthProvider, 85-101: login stores the pair and sets the state.
LoggedIn(t) == [Issued(t) EXCEPT !.pc = "idle", !.stored = TRUE, !.authenticated = TRUE]

\* AuthProvider, 71-83: refreshAccessToken logs in again or logs out.
ClientRefresh ==
    /\ tok.place = "bearer"
    /\ tok.pc = "refreshing"
    /\ \E ok \in BOOLEAN :
          tok' = IF ok THEN LoggedIn(tok) ELSE LoggedOut(tok)
    /\ UNCHANGED <<cl, px, tm, version, clock, cacheV, feed, fetchV, req>>

\* GET /api/strava/activities with the browser's token: getUserFromSession
\* asks the provider for the athlete and rejects the request when the
\* token is no longer valid.
StartBearer ==
    /\ tok.place = "bearer"
    /\ tok.mounted
    /\ tok.pc = "idle"
    /\ tok.access # None
    /\ calls < MaxCalls
    /\ calls' = calls + 1
    /\ tok' = CycleStart(tok, tok.access,
                         IF Expired(tok.expiresAt, clock) THEN "done" ELSE "fetching")
    /\ UNCHANGED <<cl, px, tm, version, clock, cache, lastArgs, repeat, bulkResult, feed, fetchV, req>>

\* the user logs out in the browser
Logout ==
    /\ tok.place = "bearer"
    /\ tok.mounted
    /\ tok.authenticated
    /\ tok.pc = "idle"
    /\ tok' = LoggedOut(tok)
    /\ UNCHANGED <<cl, px, tm, version, clock, cacheV, feed, fetchV, req>>

\* the first page request of the cycle
PageRequest ==
    /\ tok.pc = "fetching"
    /\ tok' = [tok EXCEPT !.pc = "done", !.used = tok.access]
    /\ UNCHANGED <<cl, px, tm, version, clock, cacheV, feed, fetchV, req>>

EndCycle ==
    /\ tok.pc = "done"
    /\ tok' = [tok EXCEPT !.pc = "idle"]
    /\ UNCHANGED <<cl, px, tm, version, clock, cacheV, feed, fetchV, req>>

TickToken ==
    /\ clock < 2 * TokenLife
    /\ clock' = clock + 1
    /\ UNCHANGED <<cl, px, tm, version, cacheV, feed, fetchV, req, tok>>

NextToken ==
    \/ StartActivities
    \/ ServerRefresh
    \/ RivalStart
    \/ RivalRefresh
    \/ RivalFinish
    \/ Mount
    \/ ClientRefresh
    \/ StartBearer
    \/ Logout
    \/ PageRequest
    \/ EndCycle
    \/ TickToken

SpecToken == InitToken /\ [][NextToken]_vars

(***************************************************************************)
(* Properties of fetchStravaActivities.                                    *)
(***************************************************************************)
Last(q) == q[Len(q)]
Answered(codes) == SelectSeq(log, LAMBDA e : e.code \in codes)
Records(q) == {q[i] : i \in 1..Len(q)}
\* the same records, in whatever order (ids are unique in a feed)
SameRecords(q, r) == Len(q) = Len(r) /\ Records(q) = Records(r)
\* pages 1..n of the feed, concatenated
FirstPages(n) ==
    SubSeq(feed, 1, IF n * PER_PAGE < Len(feed) THEN n * PER_PAGE ELSE Len(feed))
\* the first page that is empty or shorter than the page size
FirstShortPage ==
    Min({p \in 1..(Len(feed) + 1) : Len(RemotePage(feed, None, p)) < PER_PAGE})

\* C4 as stated, for the three paginating loops (server/index.ts 272-386,
\* part_003, routes/strava.js): while no request fails, the requests are for
\* pages 1, 2, ... up to the first page that is empty or shorter than the page
\* size and no further; the call then returns the records of the pages
\* received.
C4_StopsAtFirstShortPage ==
    (version \in {"index1", "part003", "routes"} /\ Answered({429, 401, 500}) = <<>>) =>
        /\ \A i \in 1..Len(log) : log[i].page = i /\ i <= FirstShortPage
        /\ fs.state # "running" =>
              /\ fs.state = "returned"
              /\ Len(log) = FirstShortPage
              /\ SameRecords(fs.result, FirstPages(Len(log)))

\* C5: in the loops that handle 429 (both versions of server/index.ts and
\* part_003), the request after a 429 for page p is for page p again; the
\* pages answered 200 are 1, 2, ... without a gap, and allActivities holds
\* exactly their data, the pages first answered 429 included.
C5_RetrySamePageOn429 ==
    version \in {"index1", "index2", "part003"} =>
        /\ \A i \in 1..Len(log) :
              log[i].code = 429 =>
                  IF i < Len(log) THEN log[i + 1].page = log[i].page
                  ELSE fs.state = "running" /\ fs.page = log[i].page
        /\ \A k \in 1..Len(Answered({200})) : Answered({200})[k].page = k
        /\ fs.allActivities = FirstPages(Len(Answered({200})))
        /\ (fs.state = "returned" /\ Last(log).code = 200) =>
              SameRecords(fs.result, FirstPages(Len(Answered({200}))))

\* C5 witness: page 2 was answered 429, then fetched, and its data returned.
C5_Witness ==
    /\ version \in {"index1", "part003"}
    /\ fs.state = "returned"
    /\ \E i \in 1..(Len(log) - 1) :
          log[i].code = 429 /\ log[i].page = 2 /\ log[i + 1].code = 200
    /\ RemotePage(feed, None, 2) # <<>>
    /\ \E k \in 1..Len(fs.result) : fs.result[k] = RemotePage(feed, None, 2)[1]

\* C6 as stated, for part_003 and the loop of server/index.ts: a 401 answer
\* is the last request of the call, and the call fails.
C6_AuthErrorPropagates ==
    version \in {"index1", "part003"} =>
        \A i \in 1..Len(log) :
            log[i].code = 401 => (i = Len(log) /\ fs.state = "threw")

\* requests for page p issued right after a 5xx answer for page p
RetriesOf(p) ==
    {i \in 2..Len(log) : log[i].page = p /\ log[i - 1].page = p /\ log[i - 1].code = 500}
\* error answers other than 429 received for page p
FailuresOf(p) ==
    {i \in 1..Len(log) : log[i].page = p /\ log[i].code \in {401, 500}}

LastWith(activities, id) ==
    activities[Max({i \in 1..Len(activities) : activities[i].id = id})]

\* a document without its sync bookkeeping stamps
Unstamped(d) == [stravaId |-> d.stravaId, userId |-> d.userId, start_date |-> d.start_date]
UnstampedAll(coll) == [i \in 1..Len(coll) |-> Unstamped(coll[i])]

\* C1: no two cached documents share (userId, stravaId), whatever bulk
\* upserts ran before; and after a bulk upsert that succeeded, every activity
\* of its list is held by the one document of its key, with the data of its
\* latest occurrence in the list (an update in place, not a second row).
C1_UniqueOwnerRemoteId ==
    /\ \A i, j \in 1..Len(cache) :
          (cache[i].userId = cache[j].userId /\ cache[i].stravaId = cache[j].stravaId)
              => i = j
    /\ (lastArgs # <<>> /\ bulkResult.ok) =>
          \A k \in 1..Len(lastArgs[2]) :
              LET hit == {i \in 1..Len(cache) : /\ cache[i].userId = lastArgs[1]
                                                  /\ cache[i].stravaId = lastArgs[2][k].id}
              IN  /\ Cardinality(hit) = 1
                  /\ \A i \in hit :
                        cache[i].start_date = LastWith(lastArgs[2], lastArgs[2][k].id).start_date

\* C1 witness: a re-sync rewrote an existing document and inserted nothing.
C1_Witness ==
    /\ calls = 2
    /\ bulkResult.ok
    /\ bulkResult.upsertedCount = 0
    /\ bulkResult.modifiedCount > 0

\* C2 as stated: a bulk upsert repeated with the same owner and list leaves
\* every stored field as the first call left it.
C2_RepeatChangesNothing ==
    [][(calls' = calls + 1 /\ lastArgs' = lastArgs) => cache' = cache]_vars

\* C2 amended: a bulk upsert repeated with the same owner and list inserts no
\* row, keeps the document count and changes no stored field other than the
\* lastUpdated / lastStravaSync stamps; find() returns the same documents in
\* the same order, stamps aside.
C2_RepeatKeepsContents ==
    [][(calls' = calls + 1 /\ lastArgs' = lastArgs) =>
            /\ Len(cache') = Len(cache)
            /\ UnstampedAll(cache') = UnstampedAll(cache)
            /\ bulkResult'.upsertedCount = 0
            /\ \A u \in Users :
                  UnstampedAll(Find(cache', u, Min(Dates), Max(Dates)))
                      = UnstampedAll(Find(cache, u, Min(Dates), Max(Dates)))]_vars

\* C2 witness: a non-empty list was upserted twice in a row, at two times.
C2_Witness ==
    /\ repeat
    /\ lastArgs[2] # <<>>
    /\ bulkResult.ok
    /\ \E i \in 1..Len(cache) : cache[i].lastUpdated = 2

(***************************************************************************)
(* Properties of the request handlers.                                     *)
(***************************************************************************)
\* the requests of getActivitiesHandler that found the cache fresh and did
\* not ask for a forced refresh
FreshUnforced(r) ==
    /\ version = "index2"
    /\ req[r].pc # "idle"
    /\ req[r].freshAtCall
    /\ ~req[r].force

\* C3: a getActivities call with forceRefresh=false that finds the owner's
\* cache non-empty and synced less than the staleness window ago never
\* starts the remote fetcher and never writes the cache; it goes straight to
\* the find() query and answers 200 with that query's result.
C3_FreshServedFromCache ==
    /\ [](\A r \in Reqs : FreshUnforced(r) =>
            /\ req[r].pc \in {"finding", "done"}
            /\ req[r].fs.state = "idle"
            /\ req[r].pc = "done" => req[r].resp.status = 200)
    /\ [][\A r \in Reqs :
            (FreshUnforced(r) /\ req[r].pc = "finding" /\ req'[r].pc = "done") =>
                req'[r].resp.activities = Find(cache, Athlete, req[r].after, req[r].before)]_vars

C3_Witness ==
    \E r \in Reqs :
        /\ FreshUnforced(r)
        /\ req[r].pc = "done"
        /\ req[r].resp.status = 200
        /\ req[r].resp.activities # <<>>
        /\ clock > SyncFeed + 1

\* a request whose remote fetch ended on an error of the provider
FetchFailed(r, cacheState) ==
    /\ req[r].pc = "done"
    /\ req[r].failure = cacheState

\* C7: when the remote fetch fails while the owner's cache holds records,
\* getActivities (server/index.ts getActivitiesHandler, routes/strava.js)
\* answers successfully with the cached records, not with an error.
C7_DegradeOnError ==
    \A r \in Reqs :
        (version \in {"index2", "routes"} /\ FetchFailed(r, "cacheHeld")) =>
            /\ req[r].resp.status = 200
            /\ req[r].resp.activities # <<>>

\* C8: when the remote fetch fails while the owner's cache is empty, the
\* handlers of server/index.ts (432-445) and unnamed/part_003 do not answer
\* with a successful empty activity list.
C8_EmptyCacheFailurePropagates ==
    \A r \in Reqs :
        (version \in {"index1", "part003"} /\ FetchFailed(r, "cacheEmpty")) =>
            ~(req[r].resp.status = 200 /\ req[r].resp.activities = <<>>)

\* the requests whose remote sync (fetch, then upsert) is in flight
InFlight == {r \in Reqs : req[r].pc \in {"fetching", "upserting"}}

\* C9: at most one remote sync of an owner is in flight at any time in
\* getActivitiesHandler.
C9_SingleInFlightSync ==
    version = "index2" => Cardinality(InFlight) <= 1

\* the cache holds a record of the user for the remote activity a
Cached(userId, a) ==
    \E i \in 1..Len(cache) : cache[i].userId = userId /\ cache[i].stravaId = a.id

\* C11: when a sync cycle of unnamed/part_003 or routes/strava.js collected
\* pages 1..k and then failed for good on page k+1, every activity of pages
\* 1..k is in the cache once the cycle has answered.
C11_PartialSuccessPersisted ==
    \A r \in Reqs :
        (version \in {"part003", "routes"} /\ req[r].pc = "done" /\ req[r].failure # "none") =>
            \A k \in 1..Len(req[r].fs.allActivities) :
                Cached(req[r].userId, req[r].fs.allActivities[k])

(***************************************************************************)
(* Properties of the cache write.                                          *)
(***************************************************************************)
\* C12: when the batched write of Activity.bulkUpsertActivities
\* (unnamed/part_004) fails, the cache is left exactly as it was before the
\* call.
C12_FailedBatchLeavesCache ==
    [][(version = "index2" /\ calls' = calls + 1 /\ ~bulkResult'.ok) => cache' = cache]_vars

\* C13: when the cache write of a sync cycle fails, the request is answered
\* with an error (HTTP 500), never with a successful sync.
C13_WriteErrorPropagates ==
    \A r \in Reqs :
        (req[r].writeFailed /\ req[r].pc = "done") => req[r].resp.status = 500

C13_Witness ==
    \E r \in Reqs :
        /\ version = "index2"
        /\ req[r].writeFailed
        /\ req[r].pc = "done"
        /\ req[r].resp.status = 500
        /\ cache # <<>>

(***************************************************************************)
(* Properties of the access token.                                         *)
(***************************************************************************)
\* C14: in a sync cycle that starts with a credential expiring soon, the
\* first page request carries a token issued by a refresh of that cycle,
\* never the token the cycle started with.
C14_RefreshBeforeFetch ==
    (tok.used # None /\ tok.soon) => tok.used > tok.genAtStart

\* C20: wherever the code decides whether to refresh the token, it
\* refreshes exactly when now >= expiresAt - skew with the 5 minute skew.
C20_RefreshIffExpiringSoon ==
    tok.decided => (tok.refreshChosen <=> tok.soonAtDecision)

\* a request that fetched, wrote and answered 200
Synced(r) ==
    /\ req[r].pc = "done"
    /\ req[r].fs.state = "returned"
    /\ req[r].resp.status = 200

\* the range of the final query of request r holds start date d
InRange(r, d) ==
    version = "index2" => (d >= req[r].after /\ d <= req[r].before)

\* C15: the list a syncing request of getActivitiesHandler or
\* routes/strava.js answers with holds every activity its cycle fetched and
\* wrote that lies in the requested range: the write completes before the
\* final query.
C15_UpsertBeforeFind ==
    \A r \in Reqs :
        (version \in {"index2", "routes"} /\ Synced(r)) =>
            \A k \in 1..Len(req[r].fs.result) :
                InRange(r, req[r].fs.result[k].start_date) =>
                    \E j \in 1..Len(req[r].resp.activities) :
                        /\ req[r].resp.activities[j].stravaId = req[r].fs.result[k].id
                        /\ req[r].resp.activities[j].userId = req[r].userId

C15_Witness ==
    \E r \in Reqs :
        /\ version \in {"index2", "routes"}
        /\ Synced(r)
        /\ Len(req[r].fs.result) = SyncFeed
        /\ Len(req[r].resp.activities) = SyncFeed

(***************************************************************************)
(* Properties of the final query.                                          *)
(***************************************************************************)
QueryBounds == {None} \cup Dates

\* the documents of the cache the query {userId, start_date in [after, before]} matches
Hits(userId, after, before) ==
    {i \in 1..Len(cache) : /\ cache[i].userId = userId
                           /\ cache[i].start_date >= after
                           /\ (before = None \/ cache[i].start_date <= before)}

\* C16: the query returns exactly the cached records of the owner whose
\* start date lies in the requested range, newest first, whatever the
\* order in which they were written.
C16_FindExactNewestFirst ==
    \A userId \in Users, after \in QueryBounds, before \in QueryBounds :
        LET found == Find(cache, userId, after, before)
            hits  == Hits(userId, after, before)
        IN  /\ Len(found) = Cardinality(hits)
            /\ \A i \in hits : \E j \in 1..Len(found) : found[j] = cache[i]
            /\ \A j \in 1..Len(found) : \E i \in hits : found[j] = cache[i]
            /\ \A j \in 1..(Len(found) - 1) : found[j].start_date >= found[j + 1].start_date

C16_Witness ==
    \E userId \in Users :
        /\ Cardinality(Hits(userId, None, None)) = 2
        /\ \E i, j \in Hits(userId, None, None) :
              i < j /\ cache[i].start_date < cache[j].start_date
        /\ \E i \in 1..Len(cache) : cache[i].userId # userId

(***************************************************************************)
(* Properties of the sync decision.                                        *)
(***************************************************************************)
\* request r is accepted in this step, unforced
AcceptedUnforced(r) ==
    /\ req[r].pc = "idle"
    /\ req'[r].pc \in {"fetching", "finding"}
    /\ ~req'[r].force

\* C17: an unforced request of getActivitiesHandler or routes/strava.js
\* that finds no cached record of the owner starts a remote fetch with no
\* since bound.
C17_NeverSyncedFullSync ==
    [][\A r \in Reqs :
          (/\ version \in {"index2", "routes"}
           /\ AcceptedUnforced(r)
           /\ Find(cache, Athlete, None, None) = <<>>) =>
              (req'[r].pc = "fetching" /\ req'[r].since = None)]_vars

\* the newest lastStravaSync over the cached records of the owner
LatestSyncTime(userId) ==
    Max({cache[i].lastStravaSync : i \in {k \in 1..Len(cache) : cache[k].userId = userId}})

\* C18: a sync that is not forced and finds cached records of the owner
\* fetches with since equal to the newest lastStravaSync of those records;
\* a forced full sync fetches with no since bound.
C18_SinceIsLatestSyncTime ==
    [][\A r \in Reqs :
          (/\ version \in {"routes", "part003", "index2"}
           /\ req[r].pc = "idle"
           /\ req'[r].pc = "fetching") =>
              req'[r].since =
                  IF req'[r].force \/ Find(cache, Athlete, None, None) = <<>>
                  THEN None
                  ELSE LatestSyncTime(Athlete)]_vars

\* C19: once a sync cycle of routes/strava.js or getActivitiesHandler has
\* completed without error, every activity the remote lists for the owner
\* has a cached record with its remote id.
C19_CacheReflectsRemote ==
    \A r \in Reqs :
        (/\ version \in {"routes", "index2"}
         /\ Synced(r)
         /\ req[r].failure = "none"
         /\ ~req[r].writeFailed) =>
            \A k \in 1..Len(feed) : Cached(req[r].userId, feed[k])

\* C21: after a failed token refresh or a logout no credential is stored,
\* the session is not authenticated and no request is running with the
\* old access token.
C21_FailedRefreshInvalidates ==
    tok.invalid =>
        /\ ~tok.stored
        /\ ~tok.authenticated
        /\ tok.pc \notin {"refreshing", "fetching"}

\* C22: two refresh calls with the same refresh token are never
\* outstanding together for one session.
C22_SingleRefreshInFlight ==
    ~(/\ tok.pc = "refreshing"
      /\ tok.rival.pc = "refreshing"
      /\ tok.rival.rtoken = tok.genAtStart)

\* The (owner, remote id) keys of a collection.
Keys(coll) == {<<coll[i].userId, coll[i].stravaId>> : i \in 1..Len(coll)}

\* C23: no step removes a cached record: the set of (owner, remote id) keys
\* and the number of documents only grow, and the collection changes only
\* in the write step of a request that fetched from the provider.
C23_NeverDeleted ==
    [][version = "index2" =>
         /\ Keys(cache) \subseteq Keys(cache')
         /\ Len(cache) <= Len(cache')
         /\ cache' # cache =>
               \E r \in Reqs : /\ req[r].pc = "upserting"
                               /\ req[r].fs.result # <<>>
                               /\ req'[r].pc \in {"finding", "done"}]_vars

\* a second sync has written into a cache that held records
C23_Witness ==
    /\ version = "index2"
    /\ calls = MaxCalls
    /\ Len(cache) >= 2
    /\ \E r \in Reqs : /\ req[r].pc = "finding"
                        /\ req[r].fs.result # <<>>
                        /\ \E i \in 1..Len(cache) : cache[i].lastStravaSync < clock

\* a request with forceRefresh (fullSync) set is accepted
AcceptedForced(r) ==
    /\ req[r].pc = "idle"
    /\ req'[r].pc \in {"fetching", "finding"}
    /\ req'[r].force

\* C24: a forced request of getActivitiesHandler or routes/strava.js
\* starts a remote fetch whatever the cache holds, and that fetch is a full
\* sync: it has no since bound and is not incremental.
C24_ForcedFullSync ==
    [][\A r \in Reqs :
          (version \in {"index2", "routes"} /\ AcceptedForced(r)) =>
              /\ req'[r].pc = "fetching"
              /\ req'[r].since = None
              /\ ~req'[r].incremental]_vars

\* C25: after a bulk upsert of index2, part003 or routes that succeeded,
\* every record of the batch carries the time of the write in both
\* lastUpdated and lastStravaSync.
C25_BothStampsSet ==
    [][(/\ version \in {"index2", "part003", "routes"}
        /\ calls' = calls + 1
        /\ bulkResult'.ok) =>
           \A k \in 1..Len(lastArgs'[2]) :
              \E i \in 1..Len(cache') :
                 /\ cache'[i].userId = lastArgs'[1]
                 /\ cache'[i].stravaId = lastArgs'[2][k].id
                 /\ cache'[i].lastUpdated = clock
                 /\ cache'[i].lastStravaSync = clock]_vars

(***************************************************************************)
(* src/utils/trainingMetrics.ts.  The file holds two definitions of        *)
(* calculateTrainingLoad and of calculateZoneDistribution: "first" is      *)
(* lines 4-106, "second" lines 107-185.  An activity is                    *)
(* [moving_time, distance, average_heartrate, max_heartrate, start_date],  *)
(* with None for an absent heart rate, moving_time in seconds (whole       *)
(* minutes), distance in metres (whole kilometres) and start_date a day    *)
(* number.  Numbers the code keeps as floating point are kept in           *)
(* thousandths, cut off after the third decimal.                           *)
(***************************************************************************)
MaxActs == 3
MetricWeeks == 1
\* browser: staleness windows of the localStorage cache in clock units, page
\* reloads and clock steps of one behaviour
CACHE_DURATION == 3
SYNC_CHECK_DURATION == 1
MaxReloads == 2
ClientTicks == 3

ZONE1_MAX == 65
ZONE2_MAX == 75
ZONE3_MAX == 85
ZONE4_MAX == 88
ASSUMED_MAX_HR == 180
ESTIMATED_MAX_HR == 220 - 30
ACUTE_DAYS == 7
CHRONIC_DAYS == 28
Today == CHRONIC_DAYS + 3

MetricActivity(mt, d, hr, mx, age) ==
    [moving_time |-> mt, distance |-> d, average_heartrate |-> hr,
     max_heartrate |-> mx, start_date |-> Today - age]

\* The activities the lists are drawn from: an hour with and without
\* distance and heart rate, inside the 7-day window, inside the 28-day
\* window only and outside both; half an hour and fifty minutes at 50%,
\* 63% and 95% of 180; a recorded maximum; no moving time.
MetricActivities ==
    {MetricActivity(3600, d, hr, None, 1) : d \in {0, 10000}, hr \in {None, 171}}
    \cup {MetricActivity(3600, 10000, None, None, age) : age \in {10, 30}}
    \cup {MetricActivity(mt, 10000, hr, None, 1) : mt \in {1800, 3000}, hr \in {90, 114}}
    \cup {MetricActivity(1800, 10000, 171, 200, 1), MetricActivity(0, 10000, 90, None, 1)}

\* one half-hour activity for each heart rate from 80 to 180
HeartRateSweep == {MetricActivity(1800, 10000, hr, None, 1) : hr \in 80..180}

MetricInputs ==
    UNION {[1..n -> MetricActivities] : n \in 0..MaxActs}
    \cup {<<a>> : a \in HeartRateSweep}

\* Math.round(n / d) for n >= 0, d > 0
Round(n, d) == (2 * n + d) \div (2 * d)

\* reduce((sum, x) => sum + x, 0)
RECURSIVE Sum(_)
Sum(xs) == IF xs = <<>> THEN 0 ELSE Head(xs) + Sum(Tail(xs))

\* activities.filter(a => new Date(a.start_date) >= now - days)
Within(activities, now, days) ==
    SelectSeq(activities, LAMBDA a : a.start_date >= now - days)

\* hrPercentage <= max, for hrPercentage = average_heartrate / maxHR and
\* max in hundredths
AtMost(hr, maxHR, max) == hr * 100 <= max * maxHR

\* calculateLoad, 29-41: twice the intensity
Intensity2(hr) ==
    IF hr = None THEN 2
    ELSE IF AtMost(hr, ASSUMED_MAX_HR, ZONE1_MAX) THEN 2
    ELSE IF AtMost(hr, ASSUMED_MAX_HR, ZONE2_MAX) THEN 3
    ELSE IF AtMost(hr, ASSUMED_MAX_HR, ZONE3_MAX) THEN 4
    ELSE IF AtMost(hr, ASSUMED_MAX_HR, ZONE4_MAX) THEN 6
    ELSE 8

\* Math.log10 in thousandths, on the distances of the model
Log10(x) == CASE x = 1 -> 0 [] x = 10 -> 1000 [] x = 11 -> 1041

\* the distance factor without the 1 the code adds
DistanceFactorLogOnly(distance) == Log10(distance \div 1000 + 1)

\* calculateLoad, 44-45: Math.log10(distanceKm + 1) + 1, in thousandths
DistanceFactor(distance) == Log10(distance \div 1000 + 1) + 1000

\* calculateLoad, 27-48: duration * intensity * distanceFactor * 100, in
\* units of 1/1200 (minutes / 60, twice the intensity / 2, thousandths)
CalculateLoad(a) ==
    (a.moving_time \div 60) * Intensity2(a.average_heartrate) * DistanceFactor(a.distance)

\* n / d to two decimals as toFixed(2) prints it, in thousandths
ToFixed2(n, d) ==
    LET q == n \div d
        r == n % d
    IN  10 * (100 * q + Round(100 * r, d))

\* calculateTrainingLoad, 13-64
CalculateTrainingLoadFirst(activities, now) ==
    LET loads(as) == [i \in 1..Len(as) |-> CalculateLoad(as[i])]
        acuteSum == Sum(loads(Within(activities, now, ACUTE_DAYS)))
        chronicSum == Sum(loads(Within(activities, now, CHRONIC_DAYS)))
    IN  [called |-> TRUE,
         acute |-> 1000 * Round(acuteSum, 1200 * ACUTE_DAYS),
         chronic |-> 1000 * Round(chronicSum, 1200 * CHRONIC_DAYS),
         ratio |-> IF chronicSum > 0
                   THEN ToFixed2(acuteSum * (CHRONIC_DAYS \div ACUTE_DAYS), chronicSum)
                   ELSE 0,
         acuteLoad |-> (acuteSum * 10) \div (12 * ACUTE_DAYS),
         chronicLoad |-> (chronicSum * 10) \div (12 * CHRONIC_DAYS),
         now |-> now]

\* calculateTrainingLoad, 125-126: distance * moving_time / 1000, in units
\* of 60
DistanceTime(a) == (a.distance \div 1000) * (a.moving_time \div 60)

\* calculateTrainingLoad, 115-138
CalculateTrainingLoadSecond(activities, now) ==
    LET loads(as) == [i \in 1..Len(as) |-> DistanceTime(as[i])]
        acuteSum == Sum(loads(Within(activities, now, ACUTE_DAYS)))
        chronicSum == Sum(loads(Within(activities, now, CHRONIC_DAYS)))
    IN  [called |-> TRUE,
         acute |-> (acuteSum * 60000) \div ACUTE_DAYS,
         chronic |-> (chronicSum * 60000) \div CHRONIC_DAYS,
         ratio |-> IF chronicSum > 0
                   THEN (acuteSum * CHRONIC_DAYS * 1000) \div (chronicSum * ACUTE_DAYS)
                   ELSE 1000,
         acuteLoad |-> (acuteSum * 60000) \div ACUTE_DAYS,
         chronicLoad |-> (chronicSum * 60000) \div CHRONIC_DAYS,
         now |-> now]

\* calculateZoneDistribution, 85-89: the zone an activity's time goes to
ZoneFirst(a) ==
    IF AtMost(a.average_heartrate, ASSUMED_MAX_HR, ZONE1_MAX) THEN 1
    ELSE IF AtMost(a.average_heartrate, ASSUMED_MAX_HR, ZONE2_MAX) THEN 2
    ELSE IF AtMost(a.average_heartrate, ASSUMED_MAX_HR, ZONE3_MAX) THEN 3
    ELSE IF AtMost(a.average_heartrate, ASSUMED_MAX_HR, ZONE4_MAX) THEN 4
    ELSE 5

\* calculateZoneDistribution, 152-160
ZoneSecond(a) ==
    LET maxHR == IF a.max_heartrate # None THEN a.max_heartrate ELSE ESTIMATED_MAX_HR
    IN  IF AtMost(a.average_heartrate, maxHR, 60) THEN 1
        ELSE IF AtMost(a.average_heartrate, maxHR, 70) THEN 2
        ELSE IF AtMost(a.average_heartrate, maxHR, 80) THEN 3
        ELSE IF AtMost(a.average_heartrate, maxHR, 90) THEN 4
        ELSE 5

\* totalTime += duration
TotalTime(counted) == Sum([i \in 1..Len(counted) |-> counted[i].moving_time])

\* the moving time of the counted activities whose zone, zones[i], is z
TimeIn(counted, zones, z) ==
    Sum([i \in 1..Len(counted) |-> IF zones[i] = z THEN counted[i].moving_time ELSE 0])

\* a distribution that counts every activity, with or without heart rate
ZoneDistributionOfAll(activities) ==
    LET zones == [i \in 1..Len(activities) |-> ZoneFirst(activities[i])]
        totalTime == TotalTime(activities)
        share(z) == IF totalTime > 0
                    THEN 1000 * Round(100 * TimeIn(activities, zones, z), totalTime)
                    ELSE 0
    IN  [called |-> TRUE, zone1 |-> share(1), zone2 |-> share(2), zone3 |-> share(3),
         zone4 |-> share(4), zone5 |-> share(5)]

\* calculateZoneDistribution, 67-106: each share rounded to a whole percent
CalculateZoneDistributionFirst(activities) ==
    LET counted == SelectSeq(activities, LAMBDA a : a.average_heartrate # None)
        zones == [i \in 1..Len(counted) |-> ZoneFirst(counted[i])]
        totalTime == TotalTime(counted)
        share(z) == IF totalTime > 0
                    THEN 1000 * Round(100 * TimeIn(counted, zones, z), totalTime)
                    ELSE 0
    IN  [called |-> TRUE, zone1 |-> share(1), zone2 |-> share(2), zone3 |-> share(3),
         zone4 |-> share(4), zone5 |-> share(5)]

\* calculateZoneDistribution, 140-185: the shares as they are
CalculateZoneDistributionSecond(activities) ==
    LET counted == SelectSeq(activities,
                             LAMBDA a : a.average_heartrate # None /\ a.moving_time # 0)
        zones == [i \in 1..Len(counted) |-> ZoneSecond(counted[i])]
        totalTime == TotalTime(counted)
        share(z) == IF totalTime > 0
                    THEN (100000 * TimeIn(counted, zones, z)) \div totalTime
                    ELSE 0
    IN  [called |-> TRUE, zone1 |-> share(1), zone2 |-> share(2), zone3 |-> share(3),
         zone4 |-> share(4), zone5 |-> share(5)]

InitMetrics ==
    /\ version = "index2"
    /\ clock = Today
    /\ CacheEmpty
    /\ feed = <<>>
    /\ FetchIdle
    /\ NoRequests
    /\ tok = NoCredential
    /\ px = NoProxy
    /\ cl = NoClient
    /\ \E variant \in {"first", "second"}, activities \in MetricInputs :
          tm = [NoMetrics EXCEPT !.variant = variant, !.activities = activities]

CallTrainingLoad ==
    /\ tm.variant # "none"
    /\ ~tm.load.called
    /\ tm' = [tm EXCEPT !.load =
                 IF tm.variant = "first"
                 THEN CalculateTrainingLoadFirst(tm.activities, clock)
                 ELSE CalculateTrainingLoadSecond(tm.activities, clock)]
    /\ UNCHANGED <<cl, px, version, clock, cacheV, feed, fetchV, req, tok>>

CallZoneDistribution ==
    /\ tm.variant # "none"
    /\ ~tm.zones.called
    /\ tm' = [tm EXCEPT !.zones =
                 IF tm.variant = "first"
                 THEN CalculateZoneDistributionFirst(tm.activities)
                 ELSE CalculateZoneDistributionSecond(tm.activities)]
    /\ UNCHANGED <<cl, px, version, clock, cacheV, feed, fetchV, req, tok>>

\* new Date(), 14 and 117: a week passes
TickMetrics ==
    /\ tm.variant # "none"
    /\ clock < Today + MetricWeeks * ACUTE_DAYS
    /\ clock' = clock + ACUTE_DAYS
    /\ UNCHANGED <<cl, px, version, cacheV, feed, fetchV, req, tok, tm>>

NextMetrics == CallTrainingLoad \/ CallZoneDistribution \/ TickMetrics

SpecMetrics == InitMetrics /\ [][NextMetrics]_vars

(***************************************************************************)
(* Properties of the training metrics.                                     *)
(***************************************************************************)
Abs(x) == IF x < 0 THEN -x ELSE x

\* the load of a list under the definition the behaviour runs, at the date
\* the measured call read
TrainingLoad(activities) ==
    IF tm.variant = "first" THEN CalculateTrainingLoadFirst(activities, tm.load.now)
    ELSE CalculateTrainingLoadSecond(activities, tm.load.now)

\* the zone of an activity under the definition the behaviour runs
ZoneOf(a) == IF tm.variant = "first" THEN ZoneFirst(a) ELSE ZoneSecond(a)

\* twice the weights 1, 1.5, 2, 3, 4 of the five bands
Weights2 == <<2, 3, 4, 6, 8>>

\* C26: the load of a single activity is the load of the same activity
\* without heart rate, times the weight 1, 1.5, 2, 3 or 4 of the heart-rate
\* zone its average heart rate falls in (times 1 when it has none).
C26_IntensityStep ==
    (tm.load.called /\ Len(tm.activities) = 1) =>
        LET a    == tm.activities[1]
            base == TrainingLoad(<<[a EXCEPT !.average_heartrate = None]>>)
            w2   == IF a.average_heartrate = None THEN 2 ELSE Weights2[ZoneOf(a)]
        IN  Abs(2 * tm.load.acuteLoad - w2 * base.acuteLoad) <= 10

\* ratio is acute / chronic, up to the rounding of toFixed(2)
NearRatio(ratio, acute, chronic) ==
    LET k == 1 + chronic \div 100000
        a == acute \div k
        c == chronic \div k
    IN  Abs(ratio * c - 1000 * a) <= 6 * c + ratio + 1000

\* C27: the ratio returned is acute / chronic when the chronic load is
\* positive and 0 otherwise; with no activity inside the 28-day window the
\* result is acute = 0, chronic = 0, ratio = 0.
C27_RatioOrZero ==
    tm.load.called =>
        /\ tm.load.chronicLoad > 0 =>
              NearRatio(tm.load.ratio, tm.load.acuteLoad, tm.load.chronicLoad)
        /\ tm.load.chronicLoad = 0 => tm.load.ratio = 0
        /\ Within(tm.activities, tm.load.now, CHRONIC_DAYS) = <<>> =>
              (tm.load.acute = 0 /\ tm.load.chronic = 0 /\ tm.load.ratio = 0)

\* three activities of 3600 s and 10000 m without heart rate, a day old at
\* the start
LoadExample == [i \in 1..3 |-> MetricActivity(3600, 10000, None, None, 1)]

LoadExampleComputed ==
    /\ tm.variant = "first"
    /\ tm.activities = LoadExample
    /\ tm.load.called
    /\ Within(tm.activities, tm.load.now, ACUTE_DAYS) = tm.activities

\* C28, as amended: for the three example activities the intensity is 1.0,
\* the distance factor is log10(11) + 1 = 2.041, the acute load is
\* 3 * (1 * 1 * 2.041 * 100) / 7 = 87.5 and the call returns acute = 87.
C28_LoadExample ==
    LoadExampleComputed =>
        /\ Intensity2(LoadExample[1].average_heartrate) = 2
        /\ DistanceFactor(LoadExample[1].distance) = 2041
        /\ tm.load.acuteLoad \in 87400..87500
        /\ tm.load.acute = 87000

C28_Witness == LoadExampleComputed

\* C28, as stated: the distance factor is log10(11) = 1.041 and the acute
\* load is 44.6.
C28_LoadExampleAsStated ==
    LoadExampleComputed =>
        /\ Intensity2(LoadExample[1].average_heartrate) = 2
        /\ DistanceFactor(LoadExample[1].distance) = 1041
        /\ tm.load.acuteLoad \in 44500..44700

\* the zone the thresholds 0.60, 0.70, 0.80, 0.90 of the assumed maximum give
ThresholdZone(a) ==
    IF AtMost(a.average_heartrate, ASSUMED_MAX_HR, 60) THEN 1
    ELSE IF AtMost(a.average_heartrate, ASSUMED_MAX_HR, 70) THEN 2
    ELSE IF AtMost(a.average_heartrate, ASSUMED_MAX_HR, 80) THEN 3
    ELSE IF AtMost(a.average_heartrate, ASSUMED_MAX_HR, 90) THEN 4
    ELSE 5

ZoneShare(zs, z) ==
    CASE z = 1 -> zs.zone1 [] z = 2 -> zs.zone2 [] z = 3 -> zs.zone3
      [] z = 4 -> zs.zone4 [] z = 5 -> zs.zone5

\* C29: the first calculateZoneDistribution reports for each zone, to the
\* nearest percent, the share of the heart-rate-bearing moving time whose
\* average heart rate over the assumed maximum falls in the zone by the
\* thresholds <= 0.60, <= 0.70, <= 0.80, <= 0.90, else.
C29_ZoneThresholds ==
    (tm.variant = "first" /\ tm.zones.called) =>
        LET counted == SelectSeq(tm.activities, LAMBDA a : a.average_heartrate # None)
            zones == [i \in 1..Len(counted) |-> ThresholdZone(counted[i])]
            totalTime == TotalTime(counted)
        IN  \A z \in 1..5 :
               IF totalTime > 0
               THEN Abs(ZoneShare(tm.zones, z)
                        - (100000 * TimeIn(counted, zones, z)) \div totalTime) <= 500
               ELSE ZoneShare(tm.zones, z) = 0

\* C30: the five percentages are each between 0 and 100 and their sum is
\* at most 100.
C30_PercentagesAtMost100 ==
    tm.zones.called =>
        /\ \A z \in 1..5 : ZoneShare(tm.zones, z) \in 0..100000
        /\ ZoneShare(tm.zones, 1) + ZoneShare(tm.zones, 2) + ZoneShare(tm.zones, 3)
             + ZoneShare(tm.zones, 4) + ZoneShare(tm.zones, 5) <= 100000

\* the distribution of a list under the definition the behaviour runs
ZoneDistribution(activities) ==
    IF tm.variant = "first" THEN CalculateZoneDistributionFirst(activities)
    ELSE CalculateZoneDistributionSecond(activities)

WithHeartRate(activities) == SelectSeq(activities, LAMBDA a : a.average_heartrate # None)

\* C31: the zone distribution of a list is that of the list without its
\* activities that have no average heart rate, and all five zones are 0
\* when no activity has one.
C31_NoHeartRateNoEffect ==
    tm.zones.called =>
        /\ tm.zones = ZoneDistribution(WithHeartRate(tm.activities))
        /\ WithHeartRate(tm.activities) = <<>> =>
              \A z \in 1..5 : ZoneShare(tm.zones, z) = 0

\* a list that mixes activities with and without heart rate was measured
C31_Witness ==
    /\ tm.zones.called
    /\ WithHeartRate(tm.activities) # <<>>
    /\ \E i \in 1..Len(tm.activities) :
          /\ tm.activities[i].average_heartrate = None
          /\ tm.activities[i].moving_time > 0
    /\ tm.zones.zone5 > 0

\* calculateTrainingLoad(activities), evaluated in the current state
EvaluatedNow(activities) ==
    IF tm.variant = "first" THEN CalculateTrainingLoadFirst(activities, clock)
    ELSE CalculateTrainingLoadSecond(activities, clock)

\* C32: an evaluation of calculateTrainingLoad or calculateZoneDistribution
\* on the list that was measured returns, whenever it is made, what the
\* measured call returned.
C32_SameListSameResult ==
    /\ tm.zones.called => ZoneDistribution(tm.activities) = tm.zones
    /\ tm.load.called =>
          LET again == EvaluatedNow(tm.activities)
          IN  /\ again.acute = tm.load.acute
              /\ again.chronic = tm.load.chronic
              /\ again.ratio = tm.load.ratio

(***************************************************************************)
(* One call of fetchStravaActivities, with the waits of its loop made      *)
(* visible.  log holds the failed request the call is sleeping on, or      *)
(* nothing while a request is outstanding.  The remote answers every       *)
(* request and every timer fires; which answer the remote gives is its     *)
(* own choice.                                                             *)
(***************************************************************************)
Outstanding == fs.state = "running" /\ log = <<>>
Sleeping == fs.state = "running" /\ log # <<>>

\* the remote answers the outstanding request
LiveAnswer ==
    /\ Outstanding
    /\ \E code \in {200, 429, 401, 500} :
          LET next == FetchStep(version, fs, code, RemotePage(feed, None, fs.page))
          IN  /\ fs' = next
              /\ log' = IF code # 200 /\ next.state = "running"
                        THEN <<[page |-> fs.page, code |-> code, backoff |-> next.backoff]>>
                        ELSE <<>>
    /\ UNCHANGED <<cl, px, tm, tok, version, clock, cacheV, feed, req>>

\* setTimeout resolves and the loop requests the same page again
LiveWake ==
    /\ Sleeping
    /\ log' = <<>>
    /\ UNCHANGED <<cl, px, tm, tok, version, clock, cacheV, feed, req, fs>>

NextFetchLive == LiveAnswer \/ LiveWake

SpecFetchLive ==
    /\ InitFetch
    /\ [][NextFetchLive]_vars
    /\ WF_vars(LiveAnswer)
    /\ WF_vars(LiveWake)

\* C33: every call of fetchStravaActivities of server/index.ts and
\* part_003 eventually returns or throws, whatever the remote answers.
C33_FetchTerminates ==
    (version \in {"index1", "index2", "part003"}) => <>(fs.state # "running")

\* request q ran a sync cycle that completed without error at most
\* SYNC_INTERVAL ago
SyncedWithinWindow(q) ==
    /\ q.pc = "done"
    /\ q.resp.status = 200
    /\ q.fs.state = "returned"
    /\ ~q.writeFailed
    /\ clock - q.resp.metadata.lastSync <= SYNC_INTERVAL

\* C34: once a sync cycle of getActivitiesHandler has completed without
\* error, an unforced request accepted within the staleness window goes
\* to the cache query without a remote fetch, also when the sync fetched
\* no activity.
C34_FreshAfterSync ==
    [][\A r \in Reqs :
          (/\ version = "index2"
           /\ AcceptedUnforced(r)
           /\ \E r2 \in Reqs \ {r} : SyncedWithinWindow(req[r2])) =>
              req'[r].pc = "finding"]_vars

(***************************************************************************)
(* server.js, apiRouter.get('/strava/activities'), 782-873: the handler    *)
(* that answers from the module-level activitiesCache or fetches one page  *)
(* from Strava and stores each activity with Activity.findOneAndUpdate.    *)
(***************************************************************************)
\* Activity.findOneAndUpdate({stravaId}, transformedActivity, {upsert: true})
FindOneAndUpdate(coll, stravaId, userId, now) ==
    LET hit == {i \in 1..Len(coll) : coll[i].stravaId = stravaId}
        doc == [stravaId |-> stravaId, userId |-> userId, start_date |-> stravaId,
                lastUpdated |-> now, lastStravaSync |-> None]
    IN  IF hit # {}
        THEN [coll EXCEPT ![Min(hit)] = [@ EXCEPT !.userId = userId]]
        ELSE Append(coll, doc)

RECURSIVE StoreAll(_, _, _, _)
StoreAll(coll, ids, userId, now) ==
    IF ids = <<>> THEN coll
    ELSE StoreAll(FindOneAndUpdate(coll, Head(ids), userId, now), Tail(ids), userId, now)

RemoteLists == {<<>>} \cup {<<i>> : i \in StravaIds} \cup {<<1, 2>>}

\* The process has just started: activitiesCache is empty, and a user's
\* lastSync is what an earlier run of the server stored.
InitProxy ==
    /\ version = "index2"
    /\ clock = SYNC_INTERVAL
    /\ CacheEmpty
    /\ feed = <<>>
    /\ FetchIdle
    /\ NoRequests
    /\ tok = NoCredential
    /\ tm = NoMetrics
    /\ cl = NoClient
    /\ \E remote \in [Users -> RemoteLists], lastSync \in [Users -> {None, 1}] :
          px = [NoProxy EXCEPT !.remote = remote, !.lastSync = lastSync]

\* 782-806: the request of user u arrives
ProxyReceive(u) ==
    /\ px.rq[u].pc = "idle"
    /\ calls < MaxCalls
    /\ calls' = calls + 1
    /\ \E known \in BOOLEAN :
          LET shouldSync == px.lastSync[u] = None
                            \/ clock - px.lastSync[u] > SYNC_INTERVAL
          IN  px' = [px EXCEPT !.rq[u] =
                       IF ~known
                       THEN [pc |-> "done", status |-> 401, activities |-> <<>>]
                       ELSE IF ~shouldSync /\ px.activitiesCache.set
                       THEN [pc |-> "done", status |-> 200,
                             activities |-> px.activitiesCache.data]
                       ELSE [pc |-> "fetching", status |-> 0, activities |-> <<>>]]
    /\ UNCHANGED <<version, clock, cache, lastArgs, repeat, bulkResult, feed, fetchV, req, tok, tm, cl>>

\* 808-873: Strava answers; the activities are stored, lastSync and
\* activitiesCache are set and the list is sent
ProxyStore(u) ==
    /\ px.rq[u].pc = "fetching"
    /\ LET activities == [i \in 1..Len(px.remote[u]) |->
                             [id |-> px.remote[u][i], owner |-> u]]
       IN  /\ cache' = StoreAll(cache, px.remote[u], u, clock)
           /\ px' = [px EXCEPT !.lastSync[u] = clock,
                               !.activitiesCache = [data |-> activities, set |-> TRUE],
                               !.rq[u] = [pc |-> "done", status |-> 200,
                                          activities |-> activities]]
    /\ UNCHANGED <<version, clock, lastArgs, repeat, bulkResult, calls, feed, fetchV, req, tok, tm, cl>>

\* 874-880: the request to Strava fails
ProxyFail(u) ==
    /\ px.rq[u].pc = "fetching"
    /\ px' = [px EXCEPT !.rq[u] = [pc |-> "done", status |-> 500, activities |-> <<>>]]
    /\ UNCHANGED <<version, clock, cacheV, feed, fetchV, req, tok, tm, cl>>

ProxyClose(u) ==
    /\ px.rq[u].pc = "done"
    /\ px' = [px EXCEPT !.rq[u] = IdleProxyRequest]
    /\ UNCHANGED <<version, clock, cacheV, feed, fetchV, req, tok, tm, cl>>

TickProxy ==
    /\ px.remote # NoProxy.remote \/ px.lastSync # NoProxy.lastSync \/ calls > 0
    /\ clock < SYNC_INTERVAL + SyncTicks
    /\ clock' = clock + 1
    /\ UNCHANGED <<version, cacheV, feed, fetchV, req, tok, tm, px, cl>>

NextProxy ==
    \/ \E u \in Users : ProxyReceive(u)
    \/ \E u \in Users : ProxyStore(u)
    \/ \E u \in Users : ProxyFail(u)
    \/ \E u \in Users : ProxyClose(u)
    \/ TickProxy

SpecProxy == InitProxy /\ [][NextProxy]_vars

\* C35: the list server.js answers to a user holds only activities of
\* that user.
C35_OwnRecordsOnly ==
    \A u \in Users :
       (px.rq[u].pc = "done" /\ px.rq[u].status = 200) =>
           \A i \in 1..Len(px.rq[u].activities) : px.rq[u].activities[i].owner = u

\* every document of coll that is not userId's is in after, as it was
OthersKept(coll, after, userId) ==
    \A i \in 1..Len(coll) :
       coll[i].userId # userId => \E j \in 1..Len(after) : after[j] = coll[i]

\* C36: a bulk upsert of Activity.bulkUpsertActivities (unnamed/part_004)
\* for one owner leaves every record of another owner as it was and does
\* not fail, also when the list holds a remote id the other owner has
\* cached.
C36_OtherOwnersUntouched ==
    [][(version = "index2" /\ calls' = calls + 1) =>
          /\ bulkResult'.ok
          /\ OthersKept(cache, cache', lastArgs'[1])]_vars

(***************************************************************************)
(* unnamed/part_005, ActivitiesProvider: fetchActivities in the browser.   *)
(* cl.metadata and cl.cachedData are the two localStorage items, <<>> when *)
(* the key is absent and <<value>> when it is present; they outlive the    *)
(* page.  cl.call holds the calls of the page that is open: a call runs to *)
(* its await in one step and goes on when the response arrives.  now,      *)
(* needsFullRefresh and lastFullSync are the locals the code reads after   *)
(* the await.                                                              *)
(***************************************************************************)
DefaultMetadata ==
    [lastFullSync |-> 0, lastSyncCheck |-> 0, totalActivities |-> 0, syncInProgress |-> FALSE]

\* what GET /api/strava/activities may answer with
ResponseLists ==
    LET a(i) == [id |-> i, start_date |-> i]
    IN  {<<>>, <<a(1)>>, <<a(1), a(2)>>, <<a(2), a(1)>>}

InitClient ==
    /\ version = "index2"
    /\ clock = CACHE_DURATION + 1
    /\ CacheEmpty
    /\ feed = <<>>
    /\ FetchIdle
    /\ NoRequests
    /\ tok = NoCredential
    /\ tm = NoMetrics
    /\ px = NoProxy
    /\ \E t \in BOOLEAN : cl = [NoClient EXCEPT !.accessToken = t]

\* fetchActivities(force) up to its return or its await (lines 54-107):
\* the browser state it leaves
FetchActivities(c, force) ==
    IF ~cl.accessToken
    THEN [cl EXCEPT !.error = "No access token available",
                    !.isLoading = FALSE,
                    !.call[c].result = "no token"]
    ELSE LET metadata == IF cl.metadata = <<>> THEN DefaultMetadata ELSE cl.metadata[1]
             now == clock
             needsFullRefresh ==
                 \/ force
                 \/ cl.cachedData = <<>>
                 \/ now - metadata.lastFullSync > CACHE_DURATION
             needsSyncCheck == now - metadata.lastSyncCheck > SYNC_CHECK_DURATION
         IN  IF metadata.syncInProgress /\ ~force
             THEN [cl EXCEPT !.error = "", !.isLoading = FALSE,
                             !.call[c].result = "skipped"]
             ELSE IF ~needsFullRefresh /\ ~needsSyncCheck /\ cl.cachedData # <<>>
             THEN [cl EXCEPT !.error = "", !.isLoading = FALSE,
                             !.activities = cl.cachedData[1],
                             !.call[c].result = "cached"]
             ELSE [cl EXCEPT !.error = "", !.isLoading = TRUE,
                             !.metadata = <<[metadata EXCEPT !.syncInProgress = TRUE]>>,
                             !.call[c] = [pc |-> "awaiting", force |-> force,
                                          needsFullRefresh |-> needsFullRefresh,
                                          now |-> now,
                                          lastFullSync |-> metadata.lastFullSync,
                                          result |-> "none"]]

\* the effect of lines 154-161: the provider has mounted and fetches, forced
\* only if no activities are cached
ClientMount ==
    /\ ~cl.mounted
    /\ \E c \in Calls :
          /\ cl.call[c].pc = "idle"
          /\ cl' = [FetchActivities(c, cl.cachedData = <<>>) EXCEPT !.mounted = TRUE]
    /\ UNCHANGED <<version, clock, cacheV, feed, fetchV, req, tok, tm, px>>

\* refreshActivities of the context value (line 167)
RefreshActivities ==
    /\ cl.mounted
    /\ \E c \in Calls :
          /\ cl.call[c].pc = "idle"
          /\ cl' = FetchActivities(c, TRUE)
    /\ UNCHANGED <<version, clock, cacheV, feed, fetchV, req, tok, tm, px>>

\* the response is an array (lines 109-128 and 149)
ClientRespond(c) ==
    /\ cl.call[c].pc = "awaiting"
    /\ \E data \in ResponseLists :
          LET sortedActivities == SortDesc(data)
              call == cl.call[c]
          IN  cl' = [cl EXCEPT
                       !.cachedData = <<sortedActivities>>,
                       !.metadata = <<[lastFullSync |-> IF call.needsFullRefresh
                                                        THEN call.now ELSE call.lastFullSync,
                                       lastSyncCheck |-> call.now,
                                       totalActivities |-> Len(sortedActivities),
                                       syncInProgress |-> FALSE]>>,
                       !.activities = sortedActivities,
                       !.isLoading = FALSE,
                       !.call[c] = [IdleCall EXCEPT !.result = "synced"]]
    /\ UNCHANGED <<version, clock, cacheV, feed, fetchV, req, tok, tm, px>>

\* the catch block and the finally (lines 130-150)
Catch(c, message) ==
    [cl EXCEPT !.error = message,
               !.activities = IF cl.cachedData # <<>> THEN cl.cachedData[1] ELSE @,
               !.metadata = IF cl.metadata # <<>>
                            THEN <<[cl.metadata[1] EXCEPT !.syncInProgress = FALSE]>>
                            ELSE @,
               !.isLoading = FALSE,
               !.call[c] = [IdleCall EXCEPT !.result = "failed"]]

\* the response is not an array: line 110 throws
ClientInvalid(c) ==
    /\ cl.call[c].pc = "awaiting"
    /\ cl' = Catch(c, "Invalid response from server")
    /\ UNCHANGED <<version, clock, cacheV, feed, fetchV, req, tok, tm, px>>

\* axios.get rejects: no answer, or a status that is not 2xx
ClientFail(c) ==
    /\ cl.call[c].pc = "awaiting"
    /\ cl' = Catch(c, "Request failed")
    /\ UNCHANGED <<version, clock, cacheV, feed, fetchV, req, tok, tm, px>>

\* the request of call c is answered, one way or another
ClientAnswer(c) == ClientRespond(c) \/ ClientInvalid(c) \/ ClientFail(c)

\* The page is closed or reloaded: its calls and its React state are gone,
\* localStorage stays, and the provider of the new page has yet to mount.
ClientReload ==
    /\ cl.mounted
    /\ cl.reloads < MaxReloads
    /\ cl' = [cl EXCEPT !.activities = <<>>, !.isLoading = TRUE, !.error = "",
                        !.mounted = FALSE,
                        !.call = [c \in Calls |-> IdleCall],
                        !.reloads = @ + 1]
    /\ UNCHANGED <<version, clock, cacheV, feed, fetchV, req, tok, tm, px>>

TickClient ==
    /\ clock < CACHE_DURATION + 1 + ClientTicks
    /\ clock' = clock + 1
    /\ UNCHANGED <<version, cacheV, feed, fetchV, req, tok, tm, px, cl>>

NextClient ==
    \/ ClientMount
    \/ RefreshActivities
    \/ \E c \in Calls : ClientRespond(c)
    \/ \E c \in Calls : ClientInvalid(c)
    \/ \E c \in Calls : ClientFail(c)
    \/ ClientReload
    \/ TickClient

SpecClient == InitClient /\ [][NextClient]_vars

\* every request that stays outstanding is answered, and the provider of a
\* page that was loaded mounts
SpecClientLive ==
    /\ InitClient
    /\ [][NextClient]_vars
    /\ \A c \in Calls : WF_vars(ClientAnswer(c))
    /\ WF_vars(ClientMount)

\* the persisted flag, false while the metadata item is absent
SyncInProgress == cl.metadata # <<>> /\ cl.metadata[1].syncInProgress

\* C37: every sync that sets the persisted syncInProgress flag of
\* fetchActivities (unnamed/part_005) clears it again in the end, whether
\* it succeeds, fails, gets an invalid response or is abandoned with its
\* page.
C37_FlagReleased == SyncInProgress ~> ~SyncInProgress

\* C38: the persisted syncInProgress flag is true in every state in which
\* a fetchActivities call of unnamed/part_005 awaits its response.
C38_FlagWhileOutstanding ==
    (\E c \in Calls : cl.call[c].pc = "awaiting") => SyncInProgress

\* what the answers logged so far carry: the pages of the 200 answers, in
\* the order of the requests
RECURSIVE Contributed(_)
Contributed(l) ==
    IF l = <<>> THEN <<>>
    ELSE LET e == l[Len(l)]
         IN  Contributed(SubSeq(l, 1, Len(l) - 1)) \o
                (IF e.code = 200 THEN RemotePage(feed, None, e.page) ELSE <<>>)

\* the 200 answers that carried activities of page p
Successes(p) ==
    {i \in 1..Len(log) : /\ log[i].page = p
                         /\ log[i].code = 200
                         /\ RemotePage(feed, None, p) # <<>>}

DistinctIds(acts) ==
    \A i, j \in 1..Len(acts) : acts[i].id = acts[j].id => i = j

\* C39: in fetchStravaActivities of unnamed/part_003 and of server/index.ts
\* (first version), whatever 429 and error answers the provider gives, the
\* activities collected are those of the pages answered with 200, each page
\* once: an answer that is not a 200 adds nothing, no page is added twice,
\* and the result returned holds each activity once.
C39_NoDuplicationOnRetry ==
    version \in {"index1", "part003"} =>
        /\ fs.allActivities = Contributed(log)
        /\ \A p \in 1..MaxFeed + 1 : Cardinality(Successes(p)) <= 1
        /\ DistinctIds(fs.allActivities)
        /\ fs.state = "returned" =>
              /\ DistinctIds(fs.result)
              /\ Len(fs.result) = Len(fs.allActivities)

\* a page was asked for again after a 429 or an error, was then answered
\* with activities, and the call returned more than one page
C39_Witness ==
    /\ version \in {"index1", "part003"}
    /\ fs.state = "returned"
    /\ Len(fs.result) > PER_PAGE
    /\ \E i, j \in 1..Len(log) :
          /\ i < j
          /\ log[i].page = log[j].page
          /\ log[i].code # 200
          /\ j \in Successes(log[j].page)

====
